---- MODULE Spec2Model ----
(***************************************************************************)
(* Model of the process-lifecycle controller of d2r2/go-shell (app.go):    *)
(* App.Start / Run / Wait / Kill / ExitCodeOrError, the watcher goroutine  *)
(* asyncWait, the unbuffered completion channel waitCh and the cached      *)
(* terminal result exitCodeOrError.                                        *)
(*                                                                         *)
(* One controller (App) is shared by a few caller goroutines.  Each caller *)
(* repeatedly invokes one of the public methods.  The controller holds no  *)
(* lock, so a method is split wherever another goroutine can observe or    *)
(* change a field between two of its accesses: Start at the check and the  *)
(* assignment of cmd.Process inside cmd.Start (line 104), at the           *)
(* assignment of app.waitCh (108) and at its re-read (110); Kill between   *)
(* Getpgid (152), the signal (157) and the read of app.waitCh in Wait      *)
(* (168); Wait at its receive (138); the watcher at its defer statement    *)
(* (75), the checks of cmd.Wait, its second read of cmd.Process and its    *)
(* return (77), Store (70), the read of app.waitCh for the send and the    *)
(* send (71), and the close (75).  A run-time panic in a watcher runs its  *)
(* deferred close and then ends the program; until the run-time has ended  *)
(* it, the other goroutines go on.                                         *)
(* Calls of Start that overlap race on the fields of exec.Cmd and of App;  *)
(* every interleaving of their reads and writes is a behaviour of the      *)
(* model.  A started watcher is one goroutine of asyncWait; several exist  *)
(* only after overlapping Starts.  The OS processes are environment        *)
(* components that may exit on their own or be signalled by Kill.          *)
(***************************************************************************)
EXTENDS Integers, Sequences, FiniteSets, TLC

\* ------------------------------------------------------------- bounds
NumThreads == 2
MaxExit == 1
MaxProcs == 2
NumKids == 1
MaxEnvLen == 2
MaxEnvCalls == 2

Threads == 1..NumThreads
ExitCodes == 0..MaxExit

\* The processes the launched processes may spawn, directly or not.
Kids == 1..NumKids

\* ------------------------------------------------------------- values
\* ExitCodeOrError struct: an exit code and an error (the string "nil" is
\* Go's nil error).
Result(code, err) == [ExitCode |-> code, Error |-> err]

\* The zero value of ExitCodeOrError, which a receive on a closed channel
\* yields.
ZeroResult == Result(0, "nil")

\* The value Wait returns when the channel is found closed.
ExitedAlready == Result(0, "Exited already")

\* What a caller holds after a call: which return statement was taken
\* (kind), the value returned (st) and, where the call received from the
\* channel, the receive's ok flag.
Ret(kind, st, ok) == [kind |-> kind, st |-> st, ok |-> ok]
NoRet == Ret("none", ZeroResult, FALSE)

\* A wait status of the OS: the process exited with a numeric status, or
\* was terminated by a signal.
Exited(n) == [kind |-> "exited", code |-> n]
Signaled == [kind |-> "signaled", code |-> 9]
NoStatus == [kind |-> "none", code |-> 0]

\* An OS process created by os.StartProcess: running, zombie (terminated,
\* not yet waited for) or reaped, with the wait status the OS holds.
Proc(state, status) == [state |-> state, status |-> status]

\* A watcher goroutine (asyncWait): its position, the channel its deferred
\* close holds (closeCh), the channel its send holds (sendCh), the process
\* its cmd.Wait waits for (proc, 0 when cmd.Wait did not come to wait), its
\* normalised result (res), the failure cmd.Wait met (fault) and the
\* run-time panics raised in it, in order (panics).
Watcher(p, closeCh, sendCh, proc, res, f) ==
    [pc |-> p, closeCh |-> closeCh, sendCh |-> sendCh, proc |-> proc,
     res |-> res, fault |-> f, panics |-> <<>>]

\* A delivery on a channel: the channel, the value and the sending watcher.
Delivery(c, st, w) == [ch |-> c, st |-> st, by |-> w]

VARIABLES
    groupSupport,  \* IsLinuxMacOSFreeBSD(): the platform has process groups
    procs,         \* the OS processes launched so far, in order of launch
    cmdProc,       \* app.cmd.Process: 0 (nil) or the index of a process
    cmdWaited,     \* cmd.Wait's "already called" mark: "no", "entered" (a
                   \* cmd.Wait passed the check and waits) or "done" (a
                   \* cmd.Wait has finished)
    chans,         \* the channels made so far: "open" or "closed" each
    handed,        \* the channels Start has returned to its callers
    cache,         \* app.exitCodeOrError: <<>> when nothing stored, else <<r>>
    watchers,      \* the watcher goroutines spawned so far, in order
    sent,          \* the deliveries made on the channels so far
    crashed,       \* <<>> while the program runs, else the panics of the
                   \* watcher that ended it
    pc,            \* per caller: "idle", or where its call is
    ch,            \* per caller: the channel its receive holds (0: nil)
    kp,            \* per caller: the process whose group id Kill resolved
    late,          \* per caller: its call of Wait began after a value had
                   \* been received from a channel
    ret,           \* the outcome of the call that returned in the step just
                   \* taken (NoRet when no call returned in it)
    kids,          \* per descendant: its state and the process whose group
                   \* it is in.  "none" (not spawned), "group" (alive in the
                   \* group), "dead" (exited, not yet reaped: still a member
                   \* of the group), "killed" (terminated by the signal sent
                   \* to the group, not yet reaped) or "gone" (reaped, or
                   \* moved to another group)
    hostKilled,    \* the signal of Kill reached the calling program itself
    cmdEnv,        \* app.cmd.Env, the entries set so far
    envSet,        \* app.cmd.Env /= nil
    osEnv,         \* os.Environ(), the inherited environment
    envCalls,      \* the arguments of the AddEnvironments calls made, in order
    whRun          \* per caller: st, what whApp.Run returned in CheckIsInstalled

vars == <<groupSupport, procs, cmdProc, cmdWaited, chans, handed, cache,
          watchers, sent, crashed, pc, ch, kp, late, ret, kids, hostKilled,
          cmdEnv, envSet, osEnv, envCalls, whRun>>

\* exec.Cmd's fields.
cmdVars == <<cmdProc, cmdWaited>>
chanVars == <<chans, handed, sent>>
callerVars == <<pc, ch, kp, late>>
groupVars == <<kids, hostKilled>>
envVars == <<cmdEnv, envSet, osEnv, envCalls>>

\* What the lifecycle operations other than Kill and a panicking watcher
\* leave alone: the platform, the process groups, the environment and the
\* installed-checks; the program goes on.
quietVars == <<groupSupport, groupVars, envVars, whRun, crashed>>

\* What Kill leaves alone besides the process groups.
stillVars == <<groupSupport, envVars, whRun, crashed>>

\* The controller's lifecycle state.
coreVars == <<procs, cmdProc, cmdWaited, chans, handed, cache, watchers, sent,
              crashed, pc, ch, kp, late>>

\* app.waitCh: nil (0) until a Start makes a channel, then the channel made
\* last (line 108 overwrites the field).
waitCh == Len(chans)

\* The program runs: the run-time has not ended it for the panic of a
\* watcher.
Alive == crashed = <<>>

\* A call returns r in this step; no call returns in it.
Return(r) == ret' = r
Silent == ret' = NoRet

\* What cmd.Wait can meet besides the process's own status: nothing, a
\* failed I/O copy, a failed wait syscall.
Faults == {"none", "io", "sys"}

\* A failed I/O copy is reported by cmd.Wait only for a process that
\* succeeded, so it is a fault of such a process alone.
CmdWaitFaults(status) ==
    IF status.kind = "exited" /\ status.code = 0 THEN Faults ELSE Faults \ {"io"}

\* ------------------------------------------------------------- pure parts

\* cmd.Wait(): the error it returns for a wait status.  fault "sys" is a
\* failure of the wait syscall itself, fault "io" a failure of the I/O copy
\* goroutines (reported only when the process itself succeeded).
CmdWaitError(status, f) ==
    IF f = "sys" THEN "WaitErr"
    ELSE IF ~(status.kind = "exited" /\ status.code = 0) THEN "ExitError"
    ELSE IF f = "io" THEN "CopyErr"
    ELSE "nil"

\* syscall.WaitStatus.ExitStatus(): the exit status, or -1 when the process
\* did not exit (it was signalled).
ExitStatus(status) == IF status.kind = "exited" THEN status.code ELSE -1

NormalizeKeepingError(err, status) ==
    IF err = "ExitError" THEN Result(ExitStatus(status), err) ELSE Result(0, err)

NormalizeCodeWithError(err, status) ==
    IF err /= "nil"
    THEN Result(ExitStatus(status), IF err = "ExitError" THEN "nil" ELSE err)
    ELSE Result(0, "nil")

\* asyncWait, lines 78-87: an *exec.ExitError carrying a WaitStatus becomes
\* (ExitStatus, nil); any other error is kept with exit code 0.
Normalize(err, status) ==
    IF err /= "nil"
    THEN IF err = "ExitError"
         THEN Result(ExitStatus(status), "nil")
         ELSE Result(0, err)
    ELSE Result(0, "nil")

\* cmd.Start()'s first check: it fails when cmd.Process is set.
CmdStartError ==
    IF cmdProc /= 0 THEN "exec: already started" ELSE "nil"

\* Wait, lines 139-143: the received value, or the sentinel when the channel
\* was found closed.
WaitResult(st, ok) == IF ok THEN st ELSE ExitedAlready

\* ------------------------------------------------------------- initial state
\* NewApp: a command that is not started, no channel, nothing cached.
CoreInit ==
    /\ groupSupport \in BOOLEAN
    /\ procs = <<>>
    /\ cmdProc = 0
    /\ cmdWaited = "no"
    /\ chans = <<>>
    /\ handed = {}
    /\ cache = <<>>
    /\ watchers = <<>>
    /\ sent = {}
    /\ crashed = <<>>
    /\ pc = [t \in Threads |-> "idle"]
    /\ ch = [t \in Threads |-> 0]
    /\ kp = [t \in Threads |-> 0]
    /\ late = [t \in Threads |-> FALSE]
    /\ ret = NoRet

\* No descendant is spawned and the calling program is untouched.
GroupInit ==
    /\ kids = [k \in Kids |-> [state |-> "none", of |-> 0]]
    /\ hostKilled = FALSE

\* NewApp leaves cmd.Env nil; no AddEnvironments call was made.
EnvInit ==
    /\ cmdEnv = <<>>
    /\ envSet = FALSE
    /\ envCalls = <<>>

\* The state after NewApp, in a program that inherited an empty environment.
Init ==
    /\ CoreInit
    /\ GroupInit
    /\ EnvInit
    /\ osEnv = <<>>
    /\ whRun = [t \in Threads |-> ZeroResult]

\* The entries a caller passes to AddEnvironments, and the lists of them.
EnvEntries == {"A=1", "B=2"}
EnvLists == UNION {[1..n -> EnvEntries] : n \in 0..MaxEnvLen}

\* os.Environ(): the environments the program may have inherited.
OsEnvs == {<<>>, <<"PATH=/bin">>, <<"PATH=/bin", "A=0">>}

\* The state after NewApp, in a program with any of the inherited environments.
InitEnv ==
    /\ CoreInit
    /\ GroupInit
    /\ EnvInit
    /\ osEnv \in OsEnvs
    /\ whRun = [t \in Threads |-> ZeroResult]

\* ------------------------------------------------------------- the OS processes
\* The processes launched so far.
Launched == 1..Len(procs)

\* A launched process exits on its own with status n.
ProcExit(p, n) ==
    /\ Alive
    /\ p \in Launched
    /\ procs[p].state = "running"
    /\ procs' = [procs EXCEPT ![p] = Proc("zombie", Exited(n))]
    /\ UNCHANGED <<quietVars, cmdVars, chanVars, cache, watchers, callerVars>>
    /\ Silent

\* syscall.Kill(-pgid, SIGKILL) / Process.Kill() on a process that is not
\* reaped: a running process terminates by the signal, a zombie is unchanged.
SignalProcess(p) ==
    procs' = IF procs[p].state = "running"
             THEN [procs EXCEPT ![p] = Proc("zombie", Signaled)]
             ELSE procs

\* NewApp, line 34: SysProcAttr.Setpgid puts the launched process in a
\* process group of its own, which its descendants inherit.  Without it
\* the group would be the calling program's.
Setpgid == TRUE

\* The descendants that are members of the group of process p: the live
\* ones and, until they are reaped, the terminated ones.
GroupKids(p) ==
    {k \in Kids : kids[k].of = p /\ kids[k].state \in {"group", "dead", "killed"}}

\* No process is left in the group of process p: kill(-pgid) fails (ESRCH).
GroupGone(p) ==
    /\ Setpgid
    /\ procs[p].state = "reaped"
    /\ GroupKids(p) = {}

SignalGroupLeaderOnly(p) ==
    UNCHANGED groupVars

\* syscall.Kill(-pgid, SIGKILL): besides the launched process, the signal
\* reaches every other live process of its group.
SignalGroup(p) ==
    /\ kids' = [k \in Kids |->
                   IF kids[k].of = p /\ kids[k].state = "group"
                   THEN [kids[k] EXCEPT !.state = "killed"]
                   ELSE kids[k]]
    /\ hostKilled' = (hostKilled \/ ~Setpgid)

\* Process p, or a live descendant in its group, spawns a process, which
\* inherits the group.
ChildSpawn(k, p) ==
    /\ Alive
    /\ p \in Launched
    /\ kids[k].state = "none"
    /\ \/ procs[p].state = "running"
       \/ \E j \in Kids : kids[j].of = p /\ kids[j].state = "group"
    /\ kids' = [kids EXCEPT ![k] = [state |-> "group", of |-> p]]
    /\ Silent
    /\ UNCHANGED <<procs, cmdVars, chanVars, cache, watchers, callerVars, crashed,
                   groupSupport, hostKilled, envVars, whRun>>

\* A descendant exits on its own; it stays in the group until it is reaped.
ChildExit(k) ==
    /\ Alive
    /\ kids[k].state = "group"
    /\ kids' = [kids EXCEPT ![k].state = "dead"]
    /\ Silent
    /\ UNCHANGED <<procs, cmdVars, chanVars, cache, watchers, callerVars, crashed,
                   groupSupport, hostKilled, envVars, whRun>>

\* A descendant moves to another process group.
ChildLeave(k) ==
    /\ Alive
    /\ kids[k].state = "group"
    /\ kids' = [kids EXCEPT ![k].state = "gone"]
    /\ Silent
    /\ UNCHANGED <<procs, cmdVars, chanVars, cache, watchers, callerVars, crashed,
                   groupSupport, hostKilled, envVars, whRun>>

\* A terminated descendant is reaped (by its parent or by init).
ChildReaped(k) ==
    /\ Alive
    /\ kids[k].state \in {"dead", "killed"}
    /\ kids' = [kids EXCEPT ![k].state = "gone"]
    /\ Silent
    /\ UNCHANGED <<procs, cmdVars, chanVars, cache, watchers, callerVars, crashed,
                   groupSupport, hostKilled, envVars, whRun>>

\* ------------------------------------------------------------- the watchers
\* The watchers spawned so far.
Spawned == 1..Len(watchers)

\* The order of a watcher's steps: the defer statement (75), the checks of
\* cmd.Wait (77), its read of cmd.Process for Process.Wait (77), the return
\* of cmd.Wait and normalisation (77-87), Store (70), the evaluation of
\* app.waitCh for the send (71), the send (71), the deferred close (75).
WatcherFlow(p) ==
    CASE p = "begin" -> "enter"
      [] p = "enter" -> "waitRead"
      [] p = "waitRead" -> "cmdWait"
      [] p = "cmdWait" -> "store"
      [] p = "store" -> "load"
      [] p = "load" -> "send"
      [] p = "send" -> "close"
      [] p = "close" -> "done"

\* The outcomes of cmd.Wait's checks at its entry: "exec: not started" when
\* cmd.Process is nil; "exec: Wait was already called" when an earlier
\* cmd.Wait has finished; either that error or a pass when an earlier
\* cmd.Wait has passed the check and is still waiting (the check and the
\* mark are not synchronised); a pass otherwise.
CmdWaitEntry ==
    IF cmdProc = 0 THEN {"exec: not started"}
    ELSE IF cmdWaited = "done" THEN {"exec: Wait was already called"}
    ELSE IF cmdWaited = "entered" THEN {"exec: Wait was already called", "nil"}
    ELSE {"nil"}

\* asyncWait, line 75: the defer statement evaluates its operand, the value
\* of app.waitCh at that moment.
WatcherDefer(w) ==
    /\ Alive
    /\ w \in Spawned
    /\ watchers[w].pc = "begin"
    /\ watchers' = [watchers EXCEPT ![w] =
            [@ EXCEPT !.pc = WatcherFlow("begin"), !.closeCh = waitCh]]
    /\ UNCHANGED <<quietVars, procs, cmdVars, chanVars, cache, callerVars>>
    /\ Silent

\* The deferred close of watcher w (75), run when asyncWait returns or
\* while a panic raised in it unwinds (raised: the panics so far): the
\* channel the defer statement evaluated is closed; closing a closed channel
\* panics.  A watcher with a panic is at `at` and the run-time is about to
\* end the program.
DeferredClose(w, raised, at) ==
    LET c == watchers[w].closeCh
        all == IF chans[c] = "open" THEN raised
               ELSE Append(raised, "close of closed channel")
    IN /\ chans' = IF chans[c] = "open" THEN [chans EXCEPT ![c] = "closed"] ELSE chans
       /\ watchers' = [watchers EXCEPT ![w] =
               [@ EXCEPT !.pc = IF all = <<>> THEN WatcherFlow("close") ELSE at,
                         !.panics = all]]

\* asyncWait, line 77: cmd.Wait is entered and makes its checks.  When they
\* fail, it returns the error at once and the error is normalised (78-87);
\* when they pass, cmd.Wait is marked as called and goes on to
\* cmd.Process.Wait().
WatcherEnter(w) ==
    /\ Alive
    /\ w \in Spawned
    /\ watchers[w].pc = "enter"
    /\ \E err \in CmdWaitEntry :
        IF err /= "nil"
        THEN /\ watchers' = [watchers EXCEPT ![w] =
                    [@ EXCEPT !.pc = WatcherFlow("cmdWait"),
                              !.res = Normalize(err, NoStatus)]]
             /\ UNCHANGED cmdWaited
        ELSE /\ watchers' = [watchers EXCEPT ![w].pc = WatcherFlow("enter")]
             /\ cmdWaited' = "entered"
    /\ UNCHANGED <<quietVars, procs, cmdProc, chanVars, cache, callerVars>>
    /\ Silent

\* asyncWait, line 77: inside cmd.Wait, cmd.Process is read again for
\* Process.Wait().  The watcher waits for the process the field names at
\* that moment.  When a Start whose launch failed has reset the field to nil
\* since the check, the call on the nil process panics: the deferred close
\* runs, with nothing stored or sent.
WatcherProcessWait(w) ==
    /\ Alive
    /\ w \in Spawned
    /\ watchers[w].pc = "waitRead"
    /\ IF cmdProc = 0
       THEN DeferredClose(w, <<"nil pointer dereference">>, "waitPanic")
       ELSE /\ watchers' = [watchers EXCEPT ![w] =
                    [@ EXCEPT !.pc = WatcherFlow("waitRead"), !.proc = cmdProc]]
            /\ UNCHANGED chans
    /\ UNCHANGED <<quietVars, procs, cmdVars, handed, sent, cache, callerVars>>
    /\ Silent

\* asyncWait, line 77: cmd.Wait returns once the process has terminated,
\* reaping it; the result is normalised (78-87).  When another watcher has
\* reaped the process, the wait fails.
WatcherCmdWait(w) ==
    /\ Alive
    /\ w \in Spawned
    /\ watchers[w].pc = "cmdWait"
    /\ LET p == watchers[w].proc
           status == procs[p].status
       IN /\ procs[p].state \in {"zombie", "reaped"}
          /\ \E f \in IF procs[p].state = "zombie"
                      THEN CmdWaitFaults(status) ELSE {"sys"} :
                watchers' = [watchers EXCEPT ![w] =
                    [@ EXCEPT !.pc = WatcherFlow("cmdWait"),
                              !.res = Normalize(CmdWaitError(status, f), status),
                              !.fault = f]]
          /\ procs' = [procs EXCEPT ![p] = Proc("reaped", status)]
    /\ cmdWaited' = "done"
    /\ UNCHANGED <<quietVars, cmdProc, chanVars, cache, callerVars>>
    /\ Silent

\* sendExitCodeOrError, line 70: publish the result in the cache.
WatcherStore(w) ==
    /\ Alive
    /\ w \in Spawned
    /\ watchers[w].pc = "store"
    /\ cache' = <<watchers[w].res>>
    /\ watchers' = [watchers EXCEPT ![w].pc = WatcherFlow("store")]
    /\ UNCHANGED <<quietVars, procs, cmdVars, chanVars, callerVars>>
    /\ Silent

\* sendExitCodeOrError, line 71: the channel operand of the send is
\* evaluated, the value of app.waitCh at that moment.
WatcherLoad(w) ==
    /\ Alive
    /\ w \in Spawned
    /\ watchers[w].pc = "load"
    /\ watchers' = [watchers EXCEPT ![w] =
            [@ EXCEPT !.pc = WatcherFlow("load"), !.sendCh = waitCh]]
    /\ UNCHANGED <<quietVars, procs, cmdVars, chanVars, cache, callerVars>>
    /\ Silent

\* sendExitCodeOrError, line 71: a send on a closed channel panics, also
\* when the channel is closed while the watcher is blocked at the send.
\* The deferred close runs while the panic unwinds.
WatcherSendPanic(w) ==
    /\ Alive
    /\ w \in Spawned
    /\ watchers[w].pc = "send"
    /\ chans[watchers[w].sendCh] = "closed"
    /\ DeferredClose(w, <<"send on closed channel">>, "panic")
    /\ UNCHANGED <<quietVars, procs, cmdVars, handed, sent, cache, callerVars>>
    /\ Silent

\* asyncWait returns after the send and its deferred close runs.
WatcherClose(w) ==
    /\ Alive
    /\ w \in Spawned
    /\ watchers[w].pc = "close"
    /\ DeferredClose(w, <<>>, "panic")
    /\ UNCHANGED <<quietVars, procs, cmdVars, handed, sent, cache, callerVars>>
    /\ Silent

\* The run-time ends the program for the panic of a watcher, which nothing
\* recovers, after the watcher's deferred close has run.
ProgramExit(w) ==
    /\ Alive
    /\ w \in Spawned
    /\ watchers[w].panics /= <<>>
    /\ crashed' = watchers[w].panics
    /\ UNCHANGED <<groupSupport, groupVars, envVars, whRun, procs, cmdVars,
                   chanVars, cache, watchers, callerVars>>
    /\ Silent

\* ------------------------------------------------------------- the channels
\* The watchers blocked at a send on channel c.
Senders(c) == {w \in Spawned : watchers[w].pc = "send" /\ watchers[w].sendCh = c}

\* A receive on the non-nil, unbuffered channel c.  From watcher w: the
\* rendezvous with w blocked at the send of line 71, which then proceeds.
\* From no watcher (w = 0): the channel is closed.  Otherwise the receive
\* blocks.
RecvEffect(c, w) ==
    IF w /= 0
    THEN /\ chans[c] = "open"
         /\ w \in Senders(c)
         /\ watchers' = [watchers EXCEPT ![w].pc = WatcherFlow("send")]
         /\ sent' = sent \cup {Delivery(c, watchers[w].res, w)}
         /\ UNCHANGED <<chans, handed>>
    ELSE /\ chans[c] = "closed"
         /\ UNCHANGED <<chanVars, watchers>>

\* The value a receive yields, and its ok flag.
Received(w) == IF w /= 0 THEN watchers[w].res ELSE ZeroResult
RecvOk(w) == w /= 0

\* ------------------------------------------------------------- callers
\* The positions at which a caller is in Wait, at the receive of line 138.
InWait == {"wait", "runWait", "killWait"}

\* The positions at which a caller is inside cmd.Start, past its check and
\* before the process is created.
Starting == {"starting", "runStarting"}

\* An idle caller t begins a call that takes it to position `to`.  When that
\* is the receive of Wait, the caller has read app.waitCh (chNow), and a
\* call of Wait is late when a value was received from a channel before it
\* began; when it is the signal of Kill, the caller has resolved the group
\* id of the process cmd.Process names.
Begin(t, to, chNow) ==
    /\ Alive
    /\ pc[t] = "idle"
    /\ pc' = [pc EXCEPT ![t] = to]
    /\ ch' = [ch EXCEPT ![t] = IF to \in InWait THEN chNow ELSE 0]
    /\ kp' = [kp EXCEPT ![t] = IF to = "killSignal" THEN cmdProc ELSE 0]
    /\ late' = [late EXCEPT ![t] = (to = "wait") /\ sent /= {}]

\* A caller inside a call moves on to position `to`; at the receive of Wait
\* it has read app.waitCh.
Goto(t, to) ==
    /\ pc' = [pc EXCEPT ![t] = to]
    /\ ch' = [ch EXCEPT ![t] = IF to \in InWait THEN waitCh ELSE 0]
    /\ kp' = [kp EXCEPT ![t] = 0]
    /\ late' = [late EXCEPT ![t] = FALSE]

\* The launches are bounded: cmd.Start is entered only while the processes
\* launched and the calls about to launch one are fewer than MaxProcs.
MayLaunch ==
    Len(procs) + Cardinality({u \in Threads : pc[u] \in Starting}) < MaxProcs

\* Start, line 104: cmd.Start is entered.  It fails at once when
\* cmd.Process is set; otherwise the caller goes on to create the process.
Start(t) ==
    LET err == CmdStartError IN
    /\ err = "nil" => MayLaunch
    /\ Begin(t, IF err /= "nil" THEN "idle" ELSE "starting", waitCh)
    /\ Return(IF err /= "nil" THEN Ret("StartErr", Result(0, err), FALSE) ELSE NoRet)
    /\ UNCHANGED <<quietVars, procs, cmdVars, chanVars, cache, watchers>>

\* App.Run, line 53: Start is called; on its error the return of line 55.
Run(t) ==
    LET err == CmdStartError IN
    /\ err = "nil" => MayLaunch
    /\ Begin(t, IF err /= "nil" THEN "idle" ELSE "runStarting", waitCh)
    /\ Return(IF err /= "nil" THEN Ret("RunLaunchErr", Result(0, err), FALSE) ELSE NoRet)
    /\ UNCHANGED <<quietVars, procs, cmdVars, chanVars, cache, watchers>>

LaunchMakingChannel(launchOk) ==
    IF launchOk
    THEN /\ procs' = Append(procs, Proc("running", NoStatus))
         /\ cmdProc' = Len(procs) + 1
         /\ UNCHANGED chans
    ELSE /\ cmdProc' = 0
         /\ chans' = Append(chans, "open")
         /\ UNCHANGED procs

\* cmd.Start inside line 104: os.StartProcess creates the process, or fails,
\* and its result is assigned to cmd.Process (nil on failure).
Launch(launchOk) ==
    IF launchOk
    THEN /\ procs' = Append(procs, Proc("running", NoStatus))
         /\ cmdProc' = Len(procs) + 1
         /\ UNCHANGED chans
    ELSE /\ cmdProc' = 0
         /\ UNCHANGED <<procs, chans>>

\* Start, lines 104-106 (for Run: 53-55): cmd.Start returns.  On a launch
\* error the call returns it; otherwise it goes on to make the channel.
StartProcess(t) ==
    /\ Alive
    /\ pc[t] \in Starting
    /\ \E launchOk \in BOOLEAN :
        /\ Launch(launchOk)
        /\ Goto(t, IF ~launchOk THEN "idle"
                   ELSE IF pc[t] = "starting" THEN "startMake" ELSE "runMake")
        /\ Return(IF launchOk THEN NoRet
                  ELSE Ret(IF pc[t] = "starting" THEN "StartErr" ELSE "RunLaunchErr",
                           Result(0, "LaunchErr"), FALSE))
    /\ UNCHANGED <<quietVars, cmdWaited, handed, sent, cache, watchers>>

\* Start, lines 108-109: a fresh channel is assigned to app.waitCh and a
\* watcher is spawned.  The watcher reads no field before its defer
\* statement (WatcherDefer), so a watcher spawned and not yet run is the
\* same as one not yet spawned.
StartMake(t) ==
    /\ Alive
    /\ pc[t] \in {"startMake", "runMake"}
    /\ chans' = Append(chans, "open")
    /\ watchers' = Append(watchers, Watcher("begin", 0, 0, 0, ZeroResult, "none"))
    /\ Goto(t, IF pc[t] = "startMake" THEN "startRet" ELSE "runRead")
    /\ Silent
    /\ UNCHANGED <<quietVars, procs, cmdVars, handed, sent, cache>>

\* Start, line 110: the call returns the value of app.waitCh at that moment.
StartReturn(t) ==
    /\ Alive
    /\ pc[t] = "startRet"
    /\ handed' = handed \cup {waitCh}
    /\ Goto(t, "idle")
    /\ Return(Ret("StartOk", ZeroResult, FALSE))
    /\ UNCHANGED <<quietVars, procs, cmdVars, chans, sent, cache, watchers>>

\* Run, line 63: Start has returned and Wait is called: the caller reads
\* app.waitCh and blocks at the receive.
RunWait(t) ==
    /\ Alive
    /\ pc[t] = "runRead"
    /\ Goto(t, "runWait")
    /\ Silent
    /\ UNCHANGED <<quietVars, procs, cmdVars, chanVars, cache, watchers>>

\* App.Wait is called: the caller reads app.waitCh and blocks at the receive.
WaitCall(t) ==
    /\ Begin(t, "wait", waitCh)
    /\ Silent
    /\ UNCHANGED <<quietVars, procs, cmdVars, chanVars, cache, watchers>>

KillOutcomeNil(st, ok) == Ret("KillWaited", Result(0, "nil"), ok)

\* Kill, lines 168-170: the Error field of what Wait returned.
KillOutcome(st, ok) == Ret("KillWaited", Result(0, st.Error), ok)

\* What a call returns when its receive has completed: Kill the error, Wait
\* and Run the result.
WaitOutcome(p, st, ok) ==
    IF p = "killWait" THEN KillOutcome(st, ok)
    ELSE Ret(IF p = "runWait" THEN "RunWaited" ELSE "Waited", st, ok)

WaitRecvNilAsClosed(t) ==
    /\ Alive
    /\ pc[t] \in InWait
    /\ IF ch[t] = 0
       THEN /\ Return(WaitOutcome(pc[t], ExitedAlready, FALSE))
            /\ UNCHANGED <<chanVars, watchers>>
       ELSE \E w \in Senders(ch[t]) \cup {0} :
               /\ RecvEffect(ch[t], w)
               /\ Return(WaitOutcome(pc[t], WaitResult(Received(w), RecvOk(w)), RecvOk(w)))
    /\ Goto(t, "idle")
    /\ UNCHANGED <<quietVars, procs, cmdVars, cache>>

\* The receive of Wait completes (in Wait itself, in Run or in Kill) and the
\* call returns.  A receive on a nil channel never completes.
WaitRecv(t) ==
    /\ Alive
    /\ pc[t] \in InWait
    /\ ch[t] /= 0
    /\ \E w \in Senders(ch[t]) \cup {0} :
        /\ RecvEffect(ch[t], w)
        /\ Return(WaitOutcome(pc[t], WaitResult(Received(w), RecvOk(w)), RecvOk(w)))
    /\ Goto(t, "idle")
    /\ UNCHANGED <<quietVars, procs, cmdVars, cache>>

\* A receive made directly on a channel Start returned.
DirectRecv(t) ==
    /\ Begin(t, "idle", waitCh)
    /\ \E c \in handed :
        \E w \in Senders(c) \cup {0} :
            /\ RecvEffect(c, w)
            /\ Return(Ret("Received", Received(w), RecvOk(w)))
    /\ UNCHANGED <<quietVars, procs, cmdVars, cache>>

QueryZeroWhenEmpty(t) ==
    /\ Begin(t, "idle", waitCh)
    /\ Return(Ret("Cached", IF cache = <<>> THEN ZeroResult ELSE cache[1], FALSE))
    /\ UNCHANGED <<quietVars, procs, cmdVars, chanVars, cache, watchers>>

\* App.ExitCodeOrError: the cached result; the type assertion on an empty
\* atomic.Value panics.
Query(t) ==
    /\ Begin(t, "idle", waitCh)
    /\ Return(IF cache = <<>>
              THEN Ret("panic", ZeroResult, FALSE)
              ELSE Ret("Cached", cache[1], FALSE))
    /\ UNCHANGED <<quietVars, procs, cmdVars, chanVars, cache, watchers>>

\* IsLinuxMacOSFreeBSD(): whether the platform has process groups, fixed for
\* the run.
IsLinuxMacOSFreeBSD == groupSupport

\* App.Kill is called.  cmd.Process is nil before a launch (and after a
\* failed one), and its dereference panics.  With process groups: Getpgid
\* (152), which fails for a reaped process.  Without: Process.Kill (163),
\* which fails for a reaped process, and on success the call goes on to
\* Wait.
KillCall(t) ==
    IF cmdProc = 0
    THEN /\ Begin(t, "idle", waitCh)
         /\ Return(Ret("panic", ZeroResult, FALSE))
         /\ UNCHANGED <<quietVars, procs, cmdVars, chanVars, cache, watchers>>
    ELSE IF IsLinuxMacOSFreeBSD
    THEN /\ IF procs[cmdProc].state = "reaped"
            THEN /\ Begin(t, "idle", waitCh)
                 /\ Return(Ret("KillGetpgidErr", Result(0, "ESRCH"), FALSE))
            ELSE /\ Begin(t, "killSignal", waitCh)
                 /\ Silent
         /\ UNCHANGED <<quietVars, procs, cmdVars, chanVars, cache, watchers>>
    ELSE /\ IF procs[cmdProc].state = "reaped"
            THEN /\ Begin(t, "idle", waitCh)
                 /\ Return(Ret("KillSignalErr", Result(0, "os: process already finished"), FALSE))
                 /\ UNCHANGED procs
            ELSE /\ Begin(t, "killRead", waitCh)
                 /\ Silent
                 /\ SignalProcess(cmdProc)
         /\ UNCHANGED <<quietVars, cmdVars, chanVars, cache, watchers>>

KillSignalIgnoringError(t) ==
    /\ Alive
    /\ pc[t] = "killSignal"
    /\ Goto(t, "killRead")
    /\ Silent
    /\ SignalProcess(kp[t])
    /\ SignalGroup(kp[t])
    /\ UNCHANGED <<stillVars, cmdVars, chanVars, cache, watchers>>

\* Kill, lines 157-160: the signal to the negated group id, which fails when
\* no process is left in the group; on success it reaches the whole group
\* and the call goes on to Wait.
KillSignal(t) ==
    /\ Alive
    /\ pc[t] = "killSignal"
    /\ IF GroupGone(kp[t])
       THEN /\ Goto(t, "idle")
            /\ Return(Ret("KillSignalErr", Result(0, "ESRCH"), FALSE))
            /\ UNCHANGED <<procs, groupVars>>
       ELSE /\ Goto(t, "killRead")
            /\ Silent
            /\ SignalProcess(kp[t])
            /\ SignalGroup(kp[t])
    /\ UNCHANGED <<stillVars, cmdVars, chanVars, cache, watchers>>

\* Kill, line 168: the signal is sent and Wait is called: the caller reads
\* app.waitCh and blocks at the receive.
KillWait(t) ==
    /\ Alive
    /\ pc[t] = "killRead"
    /\ Goto(t, "killWait")
    /\ Silent
    /\ UNCHANGED <<quietVars, procs, cmdVars, chanVars, cache, watchers>>

\* ------------------------------------------------------------- specifications
\* All the operations together have more states than can be explored, so
\* each specification combines Start, the watchers and the processes with
\* one group of operations.  Run is Start followed by Wait, and Kill is a
\* signal followed by Wait, so the field accesses of the operations left
\* out of a specification are made in it by the ones it has.

\* Start with Wait, direct receives and ExitCodeOrError.
Next ==
    \/ \E p \in 1..MaxProcs, n \in ExitCodes : ProcExit(p, n)
    \/ \E w \in 1..MaxProcs : ProgramExit(w)
    \/ \E w \in 1..MaxProcs : WatcherDefer(w)
    \/ \E w \in 1..MaxProcs : WatcherEnter(w)
    \/ \E w \in 1..MaxProcs : WatcherProcessWait(w)
    \/ \E w \in 1..MaxProcs : WatcherCmdWait(w)
    \/ \E w \in 1..MaxProcs : WatcherStore(w)
    \/ \E w \in 1..MaxProcs : WatcherLoad(w)
    \/ \E w \in 1..MaxProcs : WatcherSendPanic(w)
    \/ \E w \in 1..MaxProcs : WatcherClose(w)
    \/ \E t \in Threads : Start(t)
    \/ \E t \in Threads : StartProcess(t)
    \/ \E t \in Threads : StartMake(t)
    \/ \E t \in Threads : StartReturn(t)
    \/ \E t \in Threads : WaitCall(t)
    \/ \E t \in Threads : WaitRecv(t)
    \/ \E t \in Threads : DirectRecv(t)
    \/ \E t \in Threads : Query(t)

\* The state after NewApp on a platform with process groups.  Of the
\* operations only Kill, up to its signal, reads the platform.
InitOne == Init /\ groupSupport = TRUE

Spec == InitOne /\ [][Next]_vars

\* Start with Wait alone: every receive is made by a Wait call.
NextWait ==
    \/ \E p \in 1..MaxProcs, n \in ExitCodes : ProcExit(p, n)
    \/ \E w \in 1..MaxProcs : ProgramExit(w)
    \/ \E w \in 1..MaxProcs : WatcherDefer(w)
    \/ \E w \in 1..MaxProcs : WatcherEnter(w)
    \/ \E w \in 1..MaxProcs : WatcherProcessWait(w)
    \/ \E w \in 1..MaxProcs : WatcherCmdWait(w)
    \/ \E w \in 1..MaxProcs : WatcherStore(w)
    \/ \E w \in 1..MaxProcs : WatcherLoad(w)
    \/ \E w \in 1..MaxProcs : WatcherSendPanic(w)
    \/ \E w \in 1..MaxProcs : WatcherClose(w)
    \/ \E t \in Threads : Start(t)
    \/ \E t \in Threads : StartProcess(t)
    \/ \E t \in Threads : StartMake(t)
    \/ \E t \in Threads : StartReturn(t)
    \/ \E t \in Threads : WaitCall(t)
    \/ \E t \in Threads : WaitRecv(t)

SpecWait == InitOne /\ [][NextWait]_vars

\* Start with Run and ExitCodeOrError.
NextRun ==
    \/ \E p \in 1..MaxProcs, n \in ExitCodes : ProcExit(p, n)
    \/ \E w \in 1..MaxProcs : ProgramExit(w)
    \/ \E w \in 1..MaxProcs : WatcherDefer(w)
    \/ \E w \in 1..MaxProcs : WatcherEnter(w)
    \/ \E w \in 1..MaxProcs : WatcherProcessWait(w)
    \/ \E w \in 1..MaxProcs : WatcherCmdWait(w)
    \/ \E w \in 1..MaxProcs : WatcherStore(w)
    \/ \E w \in 1..MaxProcs : WatcherLoad(w)
    \/ \E w \in 1..MaxProcs : WatcherSendPanic(w)
    \/ \E w \in 1..MaxProcs : WatcherClose(w)
    \/ \E t \in Threads : Start(t)
    \/ \E t \in Threads : Run(t)
    \/ \E t \in Threads : StartProcess(t)
    \/ \E t \in Threads : StartMake(t)
    \/ \E t \in Threads : StartReturn(t)
    \/ \E t \in Threads : RunWait(t)
    \/ \E t \in Threads : WaitRecv(t)
    \/ \E t \in Threads : Query(t)

SpecRun == InitOne /\ [][NextRun]_vars

\* Start with Kill and direct receives, on a platform with process groups:
\* what Kill does after its signal (168-170) is the same on every platform.
NextKill ==
    \/ \E p \in 1..MaxProcs, n \in ExitCodes : ProcExit(p, n)
    \/ \E w \in 1..MaxProcs : ProgramExit(w)
    \/ \E w \in 1..MaxProcs : WatcherDefer(w)
    \/ \E w \in 1..MaxProcs : WatcherEnter(w)
    \/ \E w \in 1..MaxProcs : WatcherProcessWait(w)
    \/ \E w \in 1..MaxProcs : WatcherCmdWait(w)
    \/ \E w \in 1..MaxProcs : WatcherStore(w)
    \/ \E w \in 1..MaxProcs : WatcherLoad(w)
    \/ \E w \in 1..MaxProcs : WatcherSendPanic(w)
    \/ \E w \in 1..MaxProcs : WatcherClose(w)
    \/ \E t \in Threads : Start(t)
    \/ \E t \in Threads : StartProcess(t)
    \/ \E t \in Threads : StartMake(t)
    \/ \E t \in Threads : StartReturn(t)
    \/ \E t \in Threads : KillCall(t)
    \/ \E t \in Threads : KillSignal(t)
    \/ \E t \in Threads : KillWait(t)
    \/ \E t \in Threads : WaitRecv(t)
    \/ \E t \in Threads : DirectRecv(t)

SpecKill == InitOne /\ [][NextKill]_vars

\* Start and Kill, up to its signal, on both kinds of platform, with the
\* process groups of the launched processes: the descendants they spawn.
NextGroup ==
    \/ \E p \in 1..MaxProcs, n \in ExitCodes : ProcExit(p, n)
    \/ \E w \in 1..MaxProcs : ProgramExit(w)
    \/ \E w \in 1..MaxProcs : WatcherDefer(w)
    \/ \E w \in 1..MaxProcs : WatcherEnter(w)
    \/ \E w \in 1..MaxProcs : WatcherProcessWait(w)
    \/ \E w \in 1..MaxProcs : WatcherCmdWait(w)
    \/ \E t \in Threads : Start(t)
    \/ \E t \in Threads : StartProcess(t)
    \/ \E t \in Threads : StartMake(t)
    \/ \E t \in Threads : StartReturn(t)
    \/ \E t \in Threads : KillCall(t)
    \/ \E t \in Threads : KillSignal(t)
    \/ \E k \in Kids, p \in 1..MaxProcs : ChildSpawn(k, p)
    \/ \E k \in Kids : ChildExit(k)
    \/ \E k \in Kids : ChildLeave(k)
    \/ \E k \in Kids : ChildReaped(k)

SpecGroup == Init /\ [][NextGroup]_vars

AddEnvironmentsReseeding(env) ==
    /\ Len(envCalls) < MaxEnvCalls
    /\ cmdEnv' = osEnv \o env
    /\ envSet' = TRUE
    /\ envCalls' = Append(envCalls, env)
    /\ Silent
    /\ UNCHANGED <<coreVars, groupSupport, groupVars, osEnv, whRun>>

\* App.AddEnvironments: a nil cmd.Env is first set to os.Environ(), which is
\* never nil; then the entries are appended.  envCalls records the calls.
AddEnvironments(env) ==
    /\ Len(envCalls) < MaxEnvCalls
    /\ cmdEnv' = (IF envSet THEN cmdEnv ELSE osEnv) \o env
    /\ envSet' = TRUE
    /\ envCalls' = Append(envCalls, env)
    /\ Silent
    /\ UNCHANGED <<coreVars, groupSupport, groupVars, osEnv, whRun>>

\* A controller whose environment is being built.
NextEnv == \E env \in EnvLists : AddEnvironments(env)

SpecEnv == InitEnv /\ [][NextEnv]_vars

\* The wait statuses a run of the lookup utility can end with.
WhichStatuses == {Exited(n) : n \in ExitCodes} \cup {Signaled}

\* whApp.Run(nil, nil, nil) on the fresh controller of CheckIsInstalled,
\* which no other goroutine can reach: Run returns (0, err) when the launch
\* fails, and otherwise what its Wait receives from the fresh watcher, the
\* normalised outcome of cmd.Wait.
FreshRun(launchOk, status, f) ==
    IF ~launchOk
    THEN Result(0, "LaunchErr")
    ELSE WaitResult(Normalize(CmdWaitError(status, f), status), TRUE)

CheckIsInstalledErrorIgnoringCode(st) == st.Error

\* CheckIsInstalled, lines 120-126: the run's error, or "does not exist" for
\* a non-zero exit code, or nil.
CheckIsInstalledError(st) ==
    IF st.Error /= "nil" THEN st.Error
    ELSE IF st.ExitCode /= 0 THEN "does not exist"
    ELSE "nil"

\* App.CheckIsInstalled, lines 118-119: a run of "which" through a
\* controller of its own, in which the caller blocks; st holds what the run
\* returned.  The controller it is called on is only read for its path.
CheckIsInstalled(t) ==
    \E launchOk \in BOOLEAN, status \in WhichStatuses :
        \E f \in CmdWaitFaults(status) :
            /\ Begin(t, "check", waitCh)
            /\ Silent
            /\ whRun' = [whRun EXCEPT ![t] = FreshRun(launchOk, status, f)]
            /\ UNCHANGED <<groupSupport, groupVars, envVars, crashed, procs,
                           cmdVars, chanVars, cache, watchers>>

\* CheckIsInstalled, lines 120-126: the call returns and st goes out of
\* scope.
CheckIsInstalledReturn(t) ==
    /\ Alive
    /\ pc[t] = "check"
    /\ Goto(t, "idle")
    /\ Return(Ret("CheckIsInstalled", Result(0, CheckIsInstalledError(whRun[t])), FALSE))
    /\ whRun' = [whRun EXCEPT ![t] = ZeroResult]
    /\ UNCHANGED <<groupSupport, groupVars, envVars, crashed, procs,
                   cmdVars, chanVars, cache, watchers>>

\* The controller with installed-checks made on it while it starts its
\* process and the process runs and is reaped.
NextCheck ==
    \/ \E p \in 1..MaxProcs, n \in ExitCodes : ProcExit(p, n)
    \/ \E w \in 1..MaxProcs : ProgramExit(w)
    \/ \E w \in 1..MaxProcs : WatcherDefer(w)
    \/ \E w \in 1..MaxProcs : WatcherEnter(w)
    \/ \E w \in 1..MaxProcs : WatcherProcessWait(w)
    \/ \E w \in 1..MaxProcs : WatcherCmdWait(w)
    \/ \E w \in 1..MaxProcs : WatcherStore(w)
    \/ \E t \in Threads : Start(t)
    \/ \E t \in Threads : StartProcess(t)
    \/ \E t \in Threads : StartMake(t)
    \/ \E t \in Threads : StartReturn(t)
    \/ \E t \in Threads : CheckIsInstalled(t)
    \/ \E t \in Threads : CheckIsInstalledReturn(t)

SpecCheck == InitOne /\ [][NextCheck]_vars

\* ------------------------------------------------------------- properties
\* The positions of a watcher whose cmd.Wait has returned ("panic": a panic
\* at its send or its close), and of one that has stored its result in the
\* cache.
PastCmdWait == {"store", "load", "send", "close", "done", "panic"}
PastStore == PastCmdWait \ {"store"}

\* The watchers that have stored a result, and the deliveries on a channel.
Storers == {w \in Spawned : watchers[w].pc \in PastStore}
DeliveriesOn(c) == {d \in sent : d.ch = c}

\* C1: on every channel at most one value is delivered, no channel is
\* closed a second time, and a channel is closed only after a value was
\* delivered on it.
C1_SingleSendSingleClose ==
    /\ \A c \in 1..Len(chans) : Cardinality(DeliveriesOn(c)) <= 1
    /\ \A w \in Spawned : \A i \in DOMAIN watchers[w].panics :
           watchers[w].panics[i] /= "close of closed channel"
    /\ \A c \in 1..Len(chans) : chans[c] = "closed" => DeliveriesOn(c) /= {}

\* C2: when a receiver obtains a value from the channel, the cache holds that
\* value; when it finds the channel closed, the cache is populated.
C2_StoreBeforeSendBeforeClose ==
    ret.kind \in {"Waited", "Received"} =>
        IF ret.ok THEN cache = <<ret.st>> ELSE cache /= <<>>

\* C3: of the Wait calls that are in progress together, one returns the
\* published value: a Wait that began before any value was received and
\* completes after another Wait has received one returns "Exited already".
C3_OneWaiterGetsTheValue ==
    [][\A t \in Threads :
         (pc[t] = "wait" /\ ~late[t] /\ sent /= {} /\ pc'[t] = "idle") =>
             ret' = Ret("Waited", ExitedAlready, FALSE)]_vars

\* C4: a Wait that begins after a value has been received from the channel
\* returns (0, "Exited already").
C4_LateWaitReturnsExitedAlready ==
    [][\A t \in Threads :
         (pc[t] = "wait" /\ late[t] /\ pc'[t] = "idle") =>
             ret' = Ret("Waited", ExitedAlready, FALSE)]_vars

\* C5 (as stated): whenever Kill returns after a successful signal, it
\* returns the Error field of a result a watcher published.
C5_KillReturnsPublishedError ==
    ret.kind = "KillWaited" =>
        \E w \in Storers : ret.st.Error = watchers[w].res.Error

\* C5 (amended): whenever Kill returns after a successful signal, it returns
\* the Error field of the value it received, which a watcher published and
\* delivered, or "Exited already" when it found the channel closed.
C5_KillReturnsPublishedErrorOrExitedAlready ==
    ret.kind = "KillWaited" =>
        IF ret.ok
        THEN \E d \in sent : /\ ret.st.Error = d.st.Error
                             /\ d.st = watchers[d.by].res
                             /\ d.by \in Storers
        ELSE ret.st.Error = "Exited already"

C5_Witness ==
    /\ ret = Ret("KillWaited", Result(0, "Exited already"), FALSE)
    /\ \E d \in sent : d.st.Error = "nil"

\* C6: whenever Kill has returned after a successful signal, a watcher has
\* stored a result in the cache and a send has been completed.
C6_KillReturnsAfterPublication ==
    ret.kind = "KillWaited" =>
        /\ cache /= <<>>
        /\ Storers /= {}
        /\ sent /= {}

\* C7: a watcher whose process was terminated by a signal has a result with a
\* non-nil error and exit code 0.
C7_SignalledYieldsError ==
    \A w \in Spawned :
        (/\ watchers[w].pc \in PastCmdWait
         /\ watchers[w].proc /= 0
         /\ procs[watchers[w].proc].status = Signaled) =>
            /\ watchers[w].res.Error /= "nil"
            /\ watchers[w].res.ExitCode = 0

\* The watchers that waited for a process which exited on its own.
ExitWatchers ==
    {w \in Spawned : /\ watchers[w].pc \in PastCmdWait
                     /\ watchers[w].proc /= 0
                     /\ procs[watchers[w].proc].status.kind = "exited"}

\* C8 (as stated): the result of a watcher whose process exited on its own
\* with status N is (N, nil).
C8_ExitStatusIsResult ==
    \A w \in ExitWatchers :
        watchers[w].res = Result(procs[watchers[w].proc].status.code, "nil")

\* C8 (amended): the result of a watcher whose process exited on its own
\* with status N is (N, nil) unless its cmd.Wait met a failure of its own,
\* and then it is (0, that error); the watcher stores that result in the
\* cache and sends it on the channel.
C8_ExitStatusIsResultUnlessWaitFails ==
    /\ [](\A w \in ExitWatchers :
            /\ watchers[w].res =
                   IF watchers[w].fault = "none"
                   THEN Result(procs[watchers[w].proc].status.code, "nil")
                   ELSE Result(0, IF watchers[w].fault = "io" THEN "CopyErr" ELSE "WaitErr")
            /\ \A d \in sent : d.by = w => d.st = watchers[w].res)
    /\ [][\A w \in Spawned :
            (w \in ExitWatchers /\ watchers[w].pc = "store" /\ watchers'[w].pc = "load") =>
                cache' = <<watchers[w].res>>]_vars

C8_Witness ==
    \E w \in ExitWatchers :
        /\ watchers[w].res = Result(1, "nil")
        /\ cache = <<Result(1, "nil")>>
        /\ \E d \in sent : d.by = w /\ d.st = Result(1, "nil")

\* C9: a step in which Start or Run returns a launch error leaves the
\* channels, the watchers and the cache as they were and returns (0, that
\* error); Run is then back at its caller, not in Wait.
C9_FailedLaunchChangesNothing ==
    [][\A t \in Threads :
         /\ (pc[t] \in Starting /\ pc'[t] \notin {"startMake", "runMake"} /\ pc'[t] /= pc[t]) =>
                /\ pc'[t] = "idle"
                /\ ret' = Ret(IF pc[t] = "starting" THEN "StartErr" ELSE "RunLaunchErr",
                              Result(0, "LaunchErr"), FALSE)
                /\ UNCHANGED <<chans, handed, sent, watchers, cache>>
         /\ (pc[t] = "idle" /\ ret'.kind \in {"StartErr", "RunLaunchErr"}) =>
                /\ pc'[t] = "idle"
                /\ ret'.st.ExitCode = 0
                /\ ret'.st.Error /= "nil"
                /\ UNCHANGED <<chans, handed, sent, watchers, cache>>]_vars

C9_Witness ==
    /\ ret = Ret("RunLaunchErr", Result(0, "LaunchErr"), FALSE)
    /\ chans = <<>>
    /\ watchers = <<>>
    /\ cache = <<>>
    /\ \A t \in Threads : pc[t] = "idle"

\* C10: when Getpgid fails, Kill returns that error in the same step; when
\* the signal (or Process.Kill) fails, Kill returns that error; in both
\* cases without signalling a process, receiving from a channel or changing
\* the cache.
C10_KillErrorsReturnAtOnce ==
    [][\A t \in Threads :
         /\ (pc[t] = "idle" /\ pc'[t] /= "idle" /\ cmdProc /= 0) =>
                procs[cmdProc].state /= "reaped"
         /\ (pc[t] = "killSignal" /\ pc'[t] /= "killSignal") =>
                IF GroupGone(kp[t])
                THEN pc'[t] = "idle" /\ ret'.kind = "KillSignalErr"
                ELSE pc'[t] = "killRead"
         /\ ret'.kind \in {"KillGetpgidErr", "KillSignalErr"} =>
                /\ ret'.st.Error /= "nil"
                /\ \A u \in Threads : pc'[u] = pc[u] \/ (pc[u] = "killSignal" /\ pc'[u] = "idle")
                /\ UNCHANGED <<procs, kids, chans, handed, sent, watchers, cache>>]_vars

C10_Witness ==
    /\ ret = Ret("KillSignalErr", Result(0, "ESRCH"), FALSE)
    /\ \E k \in Kids : /\ kids[k].state = "gone"
                       /\ kids[k].of /= 0
                       /\ procs[kids[k].of].state = "reaped"

\* C11: the launched process has a group of its own, so the signal of Kill
\* never reaches the calling program.  With process groups, the step of Kill
\* that signals terminates the launched process and every live process of
\* its group and of no other; without them, the signal terminates the
\* launched process and leaves every descendant as it was.
C11_KillReachesTheGroup ==
    /\ [](~hostKilled)
    /\ [][\A t \in Threads :
            /\ (pc[t] = "killSignal" /\ pc'[t] = "killRead") =>
                   /\ groupSupport
                   /\ procs'[kp[t]].state /= "running"
                   /\ \A k \in Kids :
                          kids'[k] = IF kids[k].of = kp[t] /\ kids[k].state = "group"
                                     THEN [state |-> "killed", of |-> kp[t]]
                                     ELSE kids[k]
            /\ (pc[t] = "idle" /\ pc'[t] = "killRead") =>
                   /\ ~groupSupport
                   /\ procs'[cmdProc].state /= "running"
                   /\ kids' = kids]_vars

C11_Witness ==
    /\ groupSupport
    /\ \E k \in Kids :
        /\ kids[k].state = "killed"
        /\ procs[kids[k].of].status = Signaled
    /\ \E t \in Threads : pc[t] = "killRead"

\* The results the controller holds or has handed out.
HeldResults ==
    {watchers[w].res : w \in Spawned}
        \cup {cache[i] : i \in 1..Len(cache)}
        \cup {d.st : d \in sent}
        \cup {ret.st}

\* The two shapes of a result.
TwoShapes(r) == r.Error = "nil" \/ r.ExitCode = 0

\* C12: every result a watcher computes, the cache holds, the channel
\* delivers or a call returns has no error, or has exit code 0.
C12_ResultsHaveTwoShapes == \A r \in HeldResults : TwoShapes(r)

C12_Witness ==
    /\ ret = Ret("Waited", ExitedAlready, FALSE)
    /\ \E d \in sent : d.st.Error \notin {"nil", "Exited already"}
    /\ \E w \in Spawned : watchers[w].res = Result(1, "nil")

\* C13: once the cache holds a result, it holds that result for ever.
C13_CacheWriteOnce ==
    [][cache /= <<>> => cache' = cache]_vars

\* C14: when no other call has received from a channel, Run returns after a
\* process has completed, and the value it returns is the one received from
\* a watcher and the one the cache holds.
C14_RunReturnsPublishedResult ==
    (ret.kind = "RunWaited" /\ ret.ok /\ Cardinality(sent) = 1) =>
        /\ \E p \in Launched : procs[p].state = "reaped"
        /\ cache = <<ret.st>>

\* C15: a controller has at most one channel and one watcher.
C15_OneLifetime ==
    /\ Len(chans) <= 1
    /\ Len(watchers) <= 1

\* C18: a channel is closed only after a value was delivered on it, and a
\* watcher is past its send only after its value was received.
C18_SendIsRendezvous ==
    /\ \A c \in 1..Len(chans) : chans[c] = "closed" => DeliveriesOn(c) /= {}
    /\ \A w \in Spawned :
           watchers[w].pc \in {"close", "done", "panic"} => \E d \in sent : d.by = w

\* C19: a Wait called while no Start has made a channel holds the nil
\* channel, and a Wait that holds the nil channel never returns.
C19_WaitWithoutStartBlocks ==
    [][\A t \in Threads :
         /\ (pc[t] = "idle" /\ pc'[t] = "wait" /\ chans = <<>>) => ch'[t] = 0
         /\ (pc[t] = "wait" /\ ch[t] = 0) => pc'[t] = "wait"]_vars

C19_Witness ==
    /\ ret = Ret("StartErr", Result(0, "LaunchErr"), FALSE)
    /\ chans = <<>>
    /\ \E t \in Threads : pc[t] = "wait" /\ ch[t] = 0

\* C20: ExitCodeOrError returns a value only when a watcher has stored one,
\* and then the value the cache holds, which a watcher stored; on the empty
\* cache the call panics.
C20_NoFabricatedResult ==
    /\ ret.kind = "Cached" =>
           /\ cache = <<ret.st>>
           /\ \E w \in Storers : watchers[w].res = ret.st
    /\ ret.kind = "panic" => cache = <<>> /\ Storers = {}
    /\ cache = <<>> <=> Storers = {}

C20_Witness ==
    /\ ret = Ret("Cached", Result(1, "nil"), FALSE)
    /\ sent = {}

RECURSIVE Flatten(_)
Flatten(calls) ==
    IF calls = <<>> THEN <<>> ELSE Head(calls) \o Flatten(Tail(calls))

\* C16: before any AddEnvironments call the environment is unset; after the
\* calls A, B, ... it is the inherited environment followed by A, B, ... in
\* the order of the calls.
C16_EnvironmentAppended ==
    IF envCalls = <<>>
    THEN ~envSet /\ cmdEnv = <<>>
    ELSE envSet /\ cmdEnv = osEnv \o Flatten(envCalls)

C16_Witness ==
    /\ Len(envCalls) = 2
    /\ osEnv /= <<>>
    /\ envCalls[1] /= <<>>
    /\ envCalls[2] /= <<>>
    /\ envCalls[1] /= envCalls[2]
    /\ cmdEnv = osEnv \o envCalls[1] \o envCalls[2]

\* C17: CheckIsInstalled returns nil exactly when the run of the lookup
\* utility has no error and exit code 0, the run's error when it has one,
\* and a "does not exist" error for a non-zero exit code; the call changes
\* neither the processes, the channels, the cache nor the watchers of the
\* controller it is made on.
C17_CheckIsInstalled ==
    [][\A t \in Threads :
         /\ (pc[t] = "check" /\ pc'[t] = "idle") =>
                LET st == whRun[t]
                    e == ret'.st.Error
                IN /\ ret'.kind = "CheckIsInstalled"
                   /\ (e = "nil") <=> (st.Error = "nil" /\ st.ExitCode = 0)
                   /\ st.Error /= "nil" => e = st.Error
                   /\ (st.Error = "nil" /\ st.ExitCode /= 0) => e = "does not exist"
         /\ (pc'[t] /= pc[t] /\ "check" \in {pc[t], pc'[t]}) =>
                UNCHANGED <<procs, cmdVars, chanVars, cache, watchers>>]_vars

C17_Witness ==
    /\ \E p \in Launched : procs[p].state = "running"
    /\ ret = Ret("CheckIsInstalled", Result(0, "does not exist"), FALSE)
    /\ \E u \in Threads : pc[u] = "check" /\ whRun[u] = ZeroResult

====
